---- MODULE Spec2Model ----
(***************************************************************************)
(* Model of stock_simulator.py: the widget form (get_inputs), the          *)
(* projection (run_projections), the price table built in main and the     *)
(* PDF report (generate_pdf_report).                                       *)
(*                                                                         *)
(* Numbers.  The program computes with Python/numpy floats.  The model     *)
(* computes with exact rationals <<n, d>> in lowest terms (d > 0), so      *)
(* every arithmetic step of the code is kept and only the binary rounding  *)
(* of floats is abstracted.  Text produced with "{:,.2f}" is modelled by   *)
(* the integer number of hundredths it prints.                             *)
(*                                                                         *)
(* A series of years + 1 floats is a sequence: period t is index t + 1.    *)
(***************************************************************************)
EXTENDS Integers, Sequences, FiniteSets

VARIABLES pc, origin, args, revenues, net_income, eps, error,
          price_df, story, growth_table, price_data, chart_error, pdf_bytes

vars == <<pc, origin, args, revenues, net_income, eps, error,
          price_df, story, growth_table, price_data, chart_error, pdf_bytes>>

(***************************************************************************)
(* Bounds of the model and constants of the program                        *)
(***************************************************************************)
MaxYears == 2

MILLION == 1000000

scenarios == <<"bear", "base", "bull">>

ScenarioSet == {scenarios[i] : i \in 1..Len(scenarios)}

pe_ratios == <<20, 40, 60, 80, 100, 120>>

PeSet == {pe_ratios[i] : i \in 1..Len(pe_ratios)}

(***************************************************************************)
(* Exact rational arithmetic standing for the float operators              *)
(***************************************************************************)
Abs(n) == IF n < 0 THEN -n ELSE n

RECURSIVE GCD(_, _)
GCD(a, b) == IF b = 0 THEN a ELSE GCD(b, a % b)

LCM(a, b) == (a \div GCD(a, b)) * b

Norm(n, d) ==
    LET g == GCD(Abs(n), d)
    IN  <<n \div g, d \div g>>

Frac(n, d) == Norm(n, d)

FromInt(n) == <<n, 1>>

Zero == FromInt(0)

One == FromInt(1)

RAdd(x, y) ==
    LET l == LCM(x[2], y[2])
    IN  Norm(x[1] * (l \div x[2]) + y[1] * (l \div y[2]), l)

RSub(x, y) == RAdd(x, <<-y[1], y[2]>>)

RMul(x, y) ==
    LET g1 == GCD(Abs(x[1]), y[2])
        g2 == GCD(Abs(y[1]), x[2])
    IN  <<(x[1] \div g1) * (y[1] \div g2), (x[2] \div g2) * (y[2] \div g1)>>

RDiv(x, y) ==
    IF y[1] > 0 THEN RMul(x, <<y[2], y[1]>>)
                ELSE RMul(x, <<-y[2], -y[1]>>)

RECURSIVE RPow(_, _)
RPow(x, k) == IF k = 0 THEN One ELSE RMul(x, RPow(x, k - 1))

RLeq(x, y) ==
    LET l == LCM(x[2], y[2])
    IN  x[1] * (l \div x[2]) <= y[1] * (l \div y[2])

(***************************************************************************)
(* round(x, 2) and "{:,.2f}": the nearest number of hundredths, ties to    *)
(* the even one, found by long division.                                   *)
(***************************************************************************)
Round2(x) ==
    LET a  == Abs(x[1])
        d  == x[2]
        q0 == a \div d
        r0 == a % d
        d1 == (r0 * 10) \div d
        r1 == (r0 * 10) % d
        d2 == (r1 * 10) \div d
        r2 == (r1 * 10) % d
        c  == q0 * 100 + d1 * 10 + d2
        up == (2 * r2 > d) \/ (2 * r2 = d /\ c % 2 = 1)
        m  == IF up THEN c + 1 ELSE c
    IN  IF x[1] < 0 THEN -m ELSE m

Last(s) == s[Len(s)]

(***************************************************************************)
(* get_inputs: the values the sidebar widgets can hand to main.  The       *)
(* widget ranges are the program's; the model draws a few values of each.  *)
(***************************************************************************)
YearsChoices == 1..MaxYears

StreamLists == {<<>>, <<"A">>, <<"A", "B">>}

RevenueChoices == {10, 20}

SharesChoices == {1000000, 100000000}

MarginPcts == {15, 25}

GrowthPcts == {-50, 100}

Names(rev_streams) == {rev_streams[i] : i \in 1..Len(rev_streams)}

RECURSIVE SumValues(_, _, _)
SumValues(rev_streams, rev_per_stream, k) ==
    IF k = 0 THEN 0
    ELSE SumValues(rev_streams, rev_per_stream, k - 1)
         + rev_per_stream[rev_streams[k]]

\* Mutant: the total taken from the first stream only.
CurrentRevenueFirst(rev_streams, rev_per_stream) ==
    IF rev_streams = <<>> THEN 0 ELSE rev_per_stream[rev_streams[1]]

CurrentRevenue(rev_streams, rev_per_stream) ==
    SumValues(rev_streams, rev_per_stream, Len(rev_streams))

Pct(p) == Frac(p, 100)

MakeArgs(shares, years, streams, rps, cm, gi, fm) ==
    [shares_outstanding |-> shares,
     years              |-> years,
     rev_streams        |-> streams,
     rev_per_stream     |-> rps,
     current_revenue    |-> CurrentRevenue(streams, rps),
     current_margin     |-> cm,
     growth_inputs      |-> gi,
     final_margins      |-> fm]

NoArgs == MakeArgs(1000000, 1, <<>>, <<>>, Zero, <<>>,
                   [s \in ScenarioSet |-> Zero])

NoSeries == [s \in ScenarioSet |-> <<>>]

NoPrices == [pe \in PeSet |-> [s \in ScenarioSet |-> 0]]

NoGrowthTable == [s \in ScenarioSet |-> [revenue |-> 0, net_income |-> 0, eps |-> 0]]

Init ==
    /\ pc = "start"
    /\ origin = "none"
    /\ args = NoArgs
    /\ revenues = NoSeries
    /\ net_income = NoSeries
    /\ eps = NoSeries
    /\ error = "none"
    /\ price_df = NoPrices
    /\ story = <<>>
    /\ growth_table = NoGrowthTable
    /\ price_data = NoPrices
    /\ chart_error = "none"
    /\ pdf_bytes = FALSE

get_inputs ==
    /\ pc = "start"
    /\ \E shares \in SharesChoices, years \in YearsChoices,
          streams \in StreamLists, cm \in MarginPcts :
       \E rps \in [Names(streams) -> RevenueChoices],
          gi \in [Names(streams) -> [ScenarioSet -> GrowthPcts]],
          fm \in [ScenarioSet -> MarginPcts] :
          args' = MakeArgs(shares, years, streams, rps, Pct(cm),
                           [st \in Names(streams) |->
                               [s \in ScenarioSet |-> Pct(gi[st][s])]],
                           [s \in ScenarioSet |-> Pct(fm[s])])
    /\ origin' = "main"
    /\ pc' = "inputs"
    /\ UNCHANGED <<revenues, net_income, eps, error, price_df, story,
                   growth_table, price_data, chart_error, pdf_bytes>>

(***************************************************************************)
(* A direct call of the pipeline functions: run_projections checks none    *)
(* of its arguments, so a caller other than main can pass a horizon of 0,  *)
(* values outside the widget ranges, or growth_inputs with a missing       *)
(* entry.  The caller computes current_revenue the way get_inputs does.    *)
(***************************************************************************)
CallerYears == 0..MaxYears

CallerRevenue == {10}

CallerShares == {100000000}

OutsideGrowthPcts == {-60, 110}

OutsideMarginPcts == {110}

Tweaks ==
    {[kind |-> "none", scenario |-> "base", value |-> 0]}
    \cup [kind : {"growth"}, scenario : ScenarioSet, value : OutsideGrowthPcts]
    \cup [kind : {"margin"}, scenario : ScenarioSet, value : OutsideMarginPcts]
    \cup [kind : {"missing"}, scenario : ScenarioSet, value : {0}]

\* The arguments a with one entry put outside the widget ranges or removed.
Tweaked(a, tw) ==
    LET first == a.rev_streams[1]
        some  == a.rev_streams # <<>>
    IN  CASE tw.kind = "growth" /\ some ->
               [a EXCEPT !.growth_inputs[first][tw.scenario] = Pct(tw.value)]
          [] tw.kind = "missing" /\ some ->
               [a EXCEPT !.growth_inputs[first] =
                   [s \in ScenarioSet \ {tw.scenario} |-> a.growth_inputs[first][s]]]
          [] tw.kind = "margin" ->
               [a EXCEPT !.final_margins[tw.scenario] = Pct(tw.value)]
          [] OTHER -> a

direct_call ==
    /\ pc = "start"
    /\ \E shares \in CallerShares, years \in CallerYears,
          streams \in StreamLists, cm \in MarginPcts, tw \in Tweaks :
       \E rps \in [Names(streams) -> CallerRevenue],
          gi \in [Names(streams) -> [ScenarioSet -> GrowthPcts]],
          fm \in [ScenarioSet -> MarginPcts] :
          args' = Tweaked(MakeArgs(shares, years, streams, rps, Pct(cm),
                                   [st \in Names(streams) |->
                                       [s \in ScenarioSet |-> Pct(gi[st][s])]],
                                   [s \in ScenarioSet |-> Pct(fm[s])]), tw)
    /\ origin' = "caller"
    /\ pc' = "inputs"
    /\ UNCHANGED <<revenues, net_income, eps, error, price_df, story,
                   growth_table, price_data, chart_error, pdf_bytes>>

(***************************************************************************)
(* run_projections                                                         *)
(***************************************************************************)
HasGrowth(growth_inputs, stream, scenario) ==
    /\ stream \in DOMAIN growth_inputs
    /\ scenario \in DOMAIN growth_inputs[stream]

\* Mutant: the entries are checked up front, whatever the horizon.
RaisesEager(a) ==
    \E i \in 1..Len(scenarios), k \in 1..Len(a.rev_streams) :
        ~HasGrowth(a.growth_inputs, a.rev_streams[k], scenarios[i])

\* growth_inputs[stream][scenario] raises KeyError on a missing key; the
\* lookup runs for every scenario, every year in 1..years and every stream.
Raises(a) ==
    \E i \in 1..Len(scenarios), year \in 1..a.years, k \in 1..Len(a.rev_streams) :
        ~HasGrowth(a.growth_inputs, a.rev_streams[k], scenarios[i])

\* Mutant: simple interest instead of compounding.
StreamRevSimple(base_val, g, year) ==
    RMul(FromInt(base_val), RAdd(One, RMul(g, FromInt(year))))

\* Mutant: the growth rate subtracted instead of added.
StreamRevFlip(base_val, g, year) ==
    RMul(FromInt(base_val), RPow(RSub(One, g), year))

StreamRev(base_val, g, year) ==
    RMul(FromInt(base_val), RPow(RAdd(One, g), year))

RECURSIVE YearRev(_, _, _, _)
YearRev(a, scenario, year, k) ==
    IF k = 0 THEN Zero
    ELSE RAdd(YearRev(a, scenario, year, k - 1),
              StreamRev(a.rev_per_stream[a.rev_streams[k]],
                        a.growth_inputs[a.rev_streams[k]][scenario], year))

TotalRev(a, scenario) ==
    [i \in 1..(a.years + 1) |->
        IF i = 1 THEN FromInt(a.current_revenue)
        ELSE YearRev(a, scenario, i - 1, Len(a.rev_streams))]

\* Mutant: the step taken over num intervals (endpoint excluded).
LinspaceNoEndpoint(start, stop, num) ==
    [i \in 1..num |->
        RAdd(start, RMul(FromInt(i - 1), RDiv(RSub(stop, start), FromInt(num))))]

\* Mutant: a single sample is the stop value.
LinspaceSingleStop(start, stop, num) ==
    [i \in 1..num |->
        IF i = num THEN stop
        ELSE RAdd(start, RMul(FromInt(i - 1),
                              RDiv(RSub(stop, start), FromInt(num - 1))))]

\* np.linspace(start, stop, num): num evenly spaced samples, the last one
\* set to stop; a single sample is start and no step is computed.
Linspace(start, stop, num) ==
    [i \in 1..num |->
        IF num = 1 THEN start
        ELSE IF i = num THEN stop
        ELSE RAdd(start, RMul(FromInt(i - 1),
                              RDiv(RSub(stop, start), FromInt(num - 1))))]

Margins(a, scenario) ==
    Linspace(a.current_margin, a.final_margins[scenario], a.years + 1)

NetIncome(total_rev, margins) ==
    [i \in DOMAIN total_rev |-> RMul(total_rev[i], margins[i])]

\* Mutant: the millions-to-units factor left out.
EpsUnscaled(ni, shares_outstanding) ==
    [i \in DOMAIN ni |-> RDiv(ni[i], FromInt(shares_outstanding))]

Eps(ni, shares_outstanding) ==
    [i \in DOMAIN ni |->
        RDiv(RMul(ni[i], FromInt(MILLION)), FromInt(shares_outstanding))]

run_projections ==
    /\ pc = "inputs"
    /\ IF Raises(args)
       THEN /\ error' = "KeyError"
            /\ pc' = "failed"
            /\ UNCHANGED <<revenues, net_income, eps>>
       ELSE /\ revenues' = [s \in ScenarioSet |-> TotalRev(args, s)]
            /\ net_income' = [s \in ScenarioSet |->
                                NetIncome(TotalRev(args, s), Margins(args, s))]
            /\ eps' = [s \in ScenarioSet |->
                         Eps(NetIncome(TotalRev(args, s), Margins(args, s)),
                             args.shares_outstanding)]
            /\ pc' = "projected"
            /\ UNCHANGED error
    /\ UNCHANGED <<origin, args, price_df, story, growth_table, price_data,
                   chart_error, pdf_bytes>>

(***************************************************************************)
(* main: the "Projected Stock Price" table.  Each cell is the text         *)
(* f"{round(eps[s][-1] * pe_ratio, 2):,.2f}", kept as hundredths.          *)
(***************************************************************************)
\* Mutant: the product cut to two decimals instead of rounded.
PriceCellTruncated(e, pe_ratio) ==
    LET x == RMul(e, FromInt(pe_ratio))
        h == RMul(x, FromInt(100))
    IN  h[1] \div h[2]

PriceCell(e, pe_ratio) == Round2(RMul(e, FromInt(pe_ratio)))

build_price_table ==
    /\ pc = "projected"
    /\ price_df' = [pe \in PeSet |->
                      [s \in ScenarioSet |-> PriceCell(Last(eps[s]), pe)]]
    /\ pc' = "tabled"
    /\ UNCHANGED <<origin, args, revenues, net_income, eps, error, story,
                   growth_table, price_data, chart_error, pdf_bytes>>

(***************************************************************************)
(* generate_pdf_report.  The story is the list of flowables, by name.      *)
(***************************************************************************)
StoryHead ==
    <<"Title", "Spacer",
      "Heading: Input Parameters", "Spacer", "input_table", "Spacer",
      "Heading: Revenue Streams", "Spacer", "rev_table", "Spacer",
      "Heading: Growth Assumptions", "Spacer", "growth_table", "Spacer",
      "Heading: Margin Assumptions", "Spacer", "margin_table", "PageBreak",
      "Heading: Financial Projections", "Spacer">>

\* Mutant: the exception swallowed without a note.
ChartFallbackSilent == <<>>

\* The except branch: the note that stands for the charts.
ChartFallback == <<"Note: Charts could not be generated">>

\* The try block: fails is the chart whose rendering raises, or "none".
ChartSection(fails) ==
    LET s1 == <<"Heading: Net Income Projections", "Spacer">>
        s2 == s1 \o <<"net_income_img", "Spacer",
                      "Heading: EPS Projections", "Spacer">>
    IN  IF fails = "net_income" THEN s1 \o ChartFallback
        ELSE IF fails = "eps" THEN s2 \o ChartFallback
        ELSE s2 \o <<"eps_img">>

StoryTail ==
    <<"PageBreak",
      "Heading: Projected Growth", "Spacer", "projected_growth_table", "Spacer",
      "Heading: Projected Stock Prices", "Spacer", "price_table", "Spacer",
      "Footer">>

\* The "Projected Growth" table: one "{:,.2f}" text per metric and scenario.
ReportRevenue(a, rev, scenario) == Round2(Last(rev[scenario]))

ReportNetIncome(a, rev, scenario) ==
    Round2(RMul(Last(rev[scenario]), a.final_margins[scenario]))

ReportEps(a, e, scenario) == Round2(Last(e[scenario]))

ReportPrice(e, pe_ratio) == Round2(RMul(e, FromInt(pe_ratio)))

\* The "Growth Assumptions" table reads growth_inputs[stream]['bear'],
\* ['base'] and ['bull'] for every stream, before the try block.
ReportRaises(a) ==
    \E k \in 1..Len(a.rev_streams), i \in 1..Len(scenarios) :
        ~HasGrowth(a.growth_inputs, a.rev_streams[k], scenarios[i])

generate_pdf_report ==
    /\ pc = "tabled"
    /\ IF ReportRaises(args)
       THEN /\ error' = "KeyError"
            /\ pc' = "report_failed"
            /\ UNCHANGED <<story, growth_table, price_data, chart_error,
                           pdf_bytes>>
       ELSE /\ \E fails \in {"none", "net_income", "eps"} :
                 /\ chart_error' = fails
                 /\ story' = StoryHead \o ChartSection(fails) \o StoryTail
            /\ growth_table' =
                 [s \in ScenarioSet |->
                     [revenue    |-> ReportRevenue(args, revenues, s),
                      net_income |-> ReportNetIncome(args, revenues, s),
                      eps        |-> ReportEps(args, eps, s)]]
            /\ price_data' = [pe \in PeSet |->
                                [s \in ScenarioSet |->
                                    ReportPrice(Last(eps[s]), pe)]]
            /\ pdf_bytes' = TRUE
            /\ pc' = "exported"
            /\ UNCHANGED error
    /\ UNCHANGED <<origin, args, revenues, net_income, eps, price_df>>

Next ==
    \/ get_inputs
    \/ direct_call
    \/ run_projections
    \/ build_price_table
    \/ generate_pdf_report

Spec == Init /\ [][Next]_vars

TypeOK ==
    /\ pc \in {"start", "inputs", "failed", "projected", "tabled", "exported",
               "report_failed"}
    /\ origin \in {"none", "main", "caller"}
    /\ error \in {"none", "KeyError"}
    /\ chart_error \in {"none", "net_income", "eps"}
    /\ pdf_bytes \in BOOLEAN

(***************************************************************************)
(* Vocabulary of the properties                                            *)
(***************************************************************************)
\* run_projections has returned its three series.
Returned == pc \in {"projected", "tabled", "exported", "report_failed"}

Periods == 0..args.years

RECURSIVE IPow(_, _)
IPow(b, k) == IF k = 0 THEN 1 ELSE b * IPow(b, k - 1)

\* base * (1 + g)^t over integers: base * (n + d)^t / d^t for g = n/d.
Compound(base, g, t) == Norm(base * IPow(g[1] + g[2], t), IPow(g[2], t))

RECURSIVE SegmentSum(_, _, _)
SegmentSum(S, scenario, t) ==
    IF S = {} THEN Zero
    ELSE LET st == CHOOSE x \in S : TRUE
         IN  RAdd(Compound(args.rev_per_stream[st],
                           args.growth_inputs[st][scenario], t),
                  SegmentSum(S \ {st}, scenario, t))

RECURSIVE BaseSum(_)
BaseSum(S) ==
    IF S = {} THEN 0
    ELSE LET st == CHOOSE x \in S : TRUE
         IN  args.rev_per_stream[st] + BaseSum(S \ {st})

\* cm + (fm - cm) * t / N, for N >= 1.
Interpolated(scenario, t) ==
    LET cm == args.current_margin
        fm == args.final_margins[scenario]
    IN  RAdd(cm, RDiv(RMul(RSub(fm, cm), FromInt(t)), FromInt(args.years)))

RAbs(x) == <<Abs(x[1]), x[2]>>

Half == <<1, 2>>

\* C1: for every scenario and every period t in 1..N the revenue is the sum
\* over the segments of segment_base * (1 + growth_rate[segment][scenario])^t,
\* each segment compounding from its own period-0 value.
C1_RevenueIsSumOfCompoundedSegments ==
    Returned =>
        \A s \in ScenarioSet : \A t \in 1..args.years :
            revenues[s][t + 1] = SegmentSum(DOMAIN args.rev_per_stream, s, t)

C1_Witness ==
    /\ Returned
    /\ args.years >= 2
    /\ Len(args.rev_streams) = 2
    /\ args.growth_inputs["A"]["bull"] # args.growth_inputs["B"]["bull"]
    /\ args.rev_per_stream["A"] # args.rev_per_stream["B"]
    /\ revenues["bull"][3] # revenues["bull"][2]

\* C2: period-0 revenue equals the sum of the values of rev_per_stream, in
\* every scenario.
C2_PeriodZeroRevenueIsBaseSum ==
    Returned =>
        \A s \in ScenarioSet :
            revenues[s][1] = FromInt(BaseSum(DOMAIN args.rev_per_stream))

C2_Witness ==
    /\ Returned
    /\ origin = "main"
    /\ Len(args.rev_streams) = 2
    /\ revenues["bear"][1] = FromInt(30)

\* C3 as stated: for every scenario and every period t in 0..N, net income is
\* revenue[t] * margin[t] with margin[t] the linear interpolation
\* cm + (fm - cm) * t / N, margin[0] being the current operating margin and
\* margin[N] the scenario's terminal margin.
C3_Original ==
    Returned =>
        \A s \in ScenarioSet :
            /\ args.years >= 1 =>
                 \A t \in Periods :
                    net_income[s][t + 1] =
                        RMul(revenues[s][t + 1], Interpolated(s, t))
            /\ net_income[s][1] = RMul(revenues[s][1], args.current_margin)
            /\ net_income[s][args.years + 1] =
                   RMul(revenues[s][args.years + 1], args.final_margins[s])

\* C3 amended: the interpolation and its two end points hold for N >= 1; with
\* N = 0 the only margin is the current operating margin.
C3_NetIncomeIsRevenueTimesMargin ==
    Returned =>
        \A s \in ScenarioSet :
            /\ args.years >= 1 =>
                 /\ \A t \in Periods :
                       net_income[s][t + 1] =
                           RMul(revenues[s][t + 1], Interpolated(s, t))
                 /\ net_income[s][args.years + 1] =
                       RMul(revenues[s][args.years + 1], args.final_margins[s])
            /\ net_income[s][1] = RMul(revenues[s][1], args.current_margin)

C3_Witness ==
    /\ Returned
    /\ args.years >= 2
    /\ args.current_margin # args.final_margins["bear"]
    /\ revenues["bear"][2] # Zero
    /\ net_income["bear"][2] = RMul(revenues["bear"][2], Interpolated("bear", 1))

\* C4: EPS[t] is net_income[t] * 1,000,000 / shares_outstanding for every
\* scenario and period; the factor is in every EPS element once and in no
\* revenue or net income element.
C4_EpsScaledOnce ==
    Returned =>
        \A s \in ScenarioSet : \A t \in Periods :
            /\ RMul(eps[s][t + 1], FromInt(args.shares_outstanding)) =
                   RMul(net_income[s][t + 1], FromInt(1000 * 1000))
            /\ net_income[s][t + 1] =
                   RMul(revenues[s][t + 1], Margins(args, s)[t + 1])
            /\ revenues[s][1] = FromInt(args.current_revenue)

C4_Witness ==
    /\ Returned
    /\ args.years >= 1
    /\ args.shares_outstanding = 100000000
    /\ net_income["base"][2] # Zero
    /\ eps["base"][2] = RDiv(net_income["base"][2], FromInt(100))

\* C5: with segment revenues >= 0, growth rates >= -0.5 and margins in [0, 1],
\* a scenario whose growth rates and terminal margin are all >= another's has
\* revenue and net income >= the other's at every period.
ValidParameters ==
    /\ \A st \in DOMAIN args.rev_per_stream : args.rev_per_stream[st] >= 0
    /\ \A st \in DOMAIN args.rev_per_stream : \A s \in ScenarioSet :
           /\ HasGrowth(args.growth_inputs, st, s)
           /\ RLeq(<<-1, 2>>, args.growth_inputs[st][s])
    /\ RLeq(Zero, args.current_margin) /\ RLeq(args.current_margin, One)
    /\ \A s \in ScenarioSet :
           RLeq(Zero, args.final_margins[s]) /\ RLeq(args.final_margins[s], One)

Dominates(A, B) ==
    /\ \A st \in DOMAIN args.rev_per_stream :
           RLeq(args.growth_inputs[st][B], args.growth_inputs[st][A])
    /\ RLeq(args.final_margins[B], args.final_margins[A])

C5_ScenarioMonotonicity ==
    (Returned /\ ValidParameters) =>
        \A A \in ScenarioSet, B \in ScenarioSet :
            Dominates(A, B) =>
                \A t \in Periods :
                    /\ RLeq(revenues[B][t + 1], revenues[A][t + 1])
                    /\ RLeq(net_income[B][t + 1], net_income[A][t + 1])

C5_Witness ==
    /\ Returned /\ ValidParameters
    /\ args.years >= 2
    /\ Len(args.rev_streams) = 2
    /\ Dominates("bull", "bear")
    /\ ~Dominates("bear", "bull")
    /\ revenues["bull"][3] # revenues["bear"][3]
    /\ net_income["bull"][3] # net_income["bear"][3]

\* C6 as stated: every cell of the valuation table is EPS[scenario][final
\* period] * multiple with no rounding, so doubling a multiple doubles the
\* implied price exactly.
Tabled == pc \in {"tabled", "exported", "report_failed"}

C6_Original ==
    Tabled =>
        \A pe \in PeSet : \A s \in ScenarioSet :
            /\ Frac(price_df[pe][s], 100) = RMul(Last(eps[s]), FromInt(pe))
            /\ 2 * pe \in PeSet => price_df[2 * pe][s] = 2 * price_df[pe][s]

\* C6 amended: every cell of the valuation table, on screen and in the PDF,
\* is EPS[scenario][final period] * multiple rounded to two decimals, so
\* doubling a multiple doubles the implied price to within one cent.
NearestCent(cents, x) ==
    RLeq(RAbs(RSub(RMul(x, FromInt(100)), FromInt(cents))), Half)

C6_PriceIsRoundedProduct ==
    Tabled =>
        \A pe \in PeSet : \A s \in ScenarioSet :
            /\ NearestCent(price_df[pe][s], RMul(Last(eps[s]), FromInt(pe)))
            /\ 2 * pe \in PeSet =>
                   Abs(price_df[2 * pe][s] - 2 * price_df[pe][s]) <= 1
            /\ pc = "exported" =>
                   /\ NearestCent(price_data[pe][s],
                                  RMul(Last(eps[s]), FromInt(pe)))
                   /\ 2 * pe \in PeSet =>
                          Abs(price_data[2 * pe][s] - 2 * price_data[pe][s]) <= 1

C6_Witness ==
    /\ pc = "exported"
    /\ Frac(price_df[20]["bear"], 100) # RMul(Last(eps["bear"]), FromInt(20))
    /\ price_df[40]["bear"] # 2 * price_df[20]["bear"]

\* C7 as stated: the projection fails, returning no result, whenever a segment
\* lacks a growth-rate entry for a requested scenario or a margin or growth
\* value is outside the policy bounds (margins in [0, 1], growth in
\* [-0.5, 1.0]); for every other input it returns a result.
MissingEntry ==
    \E st \in DOMAIN args.rev_per_stream : \E s \in ScenarioSet :
        ~HasGrowth(args.growth_inputs, st, s)

OutsidePolicy ==
    \/ ~(RLeq(Zero, args.current_margin) /\ RLeq(args.current_margin, One))
    \/ \E s \in ScenarioSet :
           ~(RLeq(Zero, args.final_margins[s]) /\ RLeq(args.final_margins[s], One))
    \/ \E st \in DOMAIN args.growth_inputs :
           \E s \in DOMAIN args.growth_inputs[st] :
               ~(/\ RLeq(<<-1, 2>>, args.growth_inputs[st][s])
                 /\ RLeq(args.growth_inputs[st][s], One))

Called == pc \notin {"start", "inputs"}

C8_ZeroHorizon ==
    (Called /\ args.years = 0) =>
        /\ pc # "failed"
        /\ \A s \in ScenarioSet :
              /\ Len(revenues[s]) = 1
              /\ Len(net_income[s]) = 1
              /\ Len(eps[s]) = 1
              /\ revenues[s][1] = FromInt(BaseSum(DOMAIN args.rev_per_stream))
              /\ net_income[s][1] =
                     RMul(FromInt(BaseSum(DOMAIN args.rev_per_stream)),
                          args.current_margin)
              /\ RMul(eps[s][1], FromInt(args.shares_outstanding)) =
                     RMul(net_income[s][1], FromInt(1000 * 1000))

C8_Witness ==
    /\ Returned
    /\ args.years = 0
    /\ Len(args.rev_streams) = 2
    /\ args.final_margins["bull"] # args.current_margin
    /\ net_income["bull"][1] # Zero

\* C9: when rendering a chart image fails, the report is still built and
\* returned: the placeholder note stands where the charts stop, and the page
\* break, the Projected Growth table, the Projected Stock Prices table and
\* the footer follow it in that order.
ExpectedAfterCharts ==
    <<"Note: Charts could not be generated", "PageBreak",
      "Heading: Projected Growth", "Spacer", "projected_growth_table", "Spacer",
      "Heading: Projected Stock Prices", "Spacer", "price_table", "Spacer",
      "Footer">>

C9_ChartFailureDoesNotAbortReport ==
    chart_error # "none" =>
        /\ pc = "exported"
        /\ pdf_bytes
        /\ Len(story) > Len(ExpectedAfterCharts)
        /\ SubSeq(story, Len(story) - Len(ExpectedAfterCharts) + 1, Len(story))
               = ExpectedAfterCharts

C9_Witness ==
    /\ chart_error = "eps"
    /\ pdf_bytes
    /\ \E i \in 1..Len(story) : story[i] = "net_income_img"

\* C10: for every scenario and every horizon the projection accepts, the
\* terminal net income the report's Projected Growth table shows is the
\* engine's net_income[s][-1], and the EPS it shows is that net income
\* * 1,000,000 / shares_outstanding.
C10_ReportShowsEngineNetIncome ==
    pc = "exported" =>
        \A s \in ScenarioSet :
            /\ growth_table[s].net_income = Round2(Last(net_income[s]))
            /\ growth_table[s].eps =
                   Round2(RDiv(RMul(RMul(Last(revenues[s]), args.final_margins[s]),
                                    FromInt(1000 * 1000)),
                               FromInt(args.shares_outstanding)))

====
